---- MODULE Spec2Model ----
(***************************************************************************)
(* Model of the enterprise-ai-agent-platform backend: the /chat endpoint   *)
(* (backend/main.py, event_generator) driving the compiled LangGraph graph *)
(* of backend/agent.py (START -> agent -> tools_condition -> tools ->      *)
(* agent), with the process-global MemorySaver checkpointer keyed by       *)
(* thread_id = session_id.                                                 *)
(*                                                                         *)
(* One chat request is one "run".  A run loads the latest checkpoint of    *)
(* its thread into its own channel values (msgs), appends the input, and   *)
(* writes a checkpoint after every superstep; the stored history of a      *)
(* session is the messages value of the checkpoint written last.           *)
(*                                                                         *)
(* Further parts: the application startup (lifespan, initialize_agent),    *)
(* the download endpoint (SpecDownload) and the tool server's project      *)
(* table and files (mcp-server: db_utils.py, server.py; SpecTools).  Each  *)
(* specification leaves the variables of the other parts at rest.          *)
(***************************************************************************)
EXTENDS Integers, Sequences, FiniteSets, TLC

\* ------------------------------------------------------------------ bounds
MaxRuns == 2        \* chat requests of one behaviour
MaxToolSteps == 1   \* tool-call messages with free content in one behaviour
MaxBatch == 2       \* tool calls in one assistant tool-call message
MaxFailures == 1    \* failing tool calls of one behaviour
MaxNameLen == 3     \* characters of a requested filename
MaxParts == 3       \* pieces of a filename given to the normalization

\* ------------------------------------------------------- program constants
\* config = {"configurable": {"thread_id": ...}} sets no recursion_limit, so
\* the graph runs with LangGraph's default limit of 25 supersteps per call.
recursion_limit == 25

Sessions == {"s1", "s2"}
Runs == 1..MaxRuns
NoSession == "none"

\* Tool names the model may request: a tool of the registry, and a name the
\* registry does not hold.
ToolNames == {"web_search", "no_such_tool"}
RegisteredTools == {"web_search"}

\* ---------------------------------------------------------------- messages
SYSTEM_PROMPT == [type |-> "system", run |-> 0, calls |-> <<>>, call_id |-> 0, err |-> FALSE]

HumanMessage(r) == [type |-> "human", run |-> r, calls |-> <<>>, call_id |-> 0, err |-> FALSE]

AIText(r) == [type |-> "ai", run |-> r, calls |-> <<>>, call_id |-> 0, err |-> FALSE]

AIToolCalls(r, cs) == [type |-> "ai", run |-> r, calls |-> cs, call_id |-> 0, err |-> FALSE]

ToolMessage(r, id, e) == [type |-> "tool", run |-> r, calls |-> <<>>, call_id |-> id, err |-> e]

IsSystem(m) == m.type = "system"

IsToolCalls(m) == m.type = "ai" /\ Len(m.calls) > 0

IsAssistantText(m) == m.type = "ai" /\ Len(m.calls) = 0

VARIABLES
    scenario,   \* "chat": several short turns; "deep": one turn with a long tool loop
    store,      \* _MEMORY_CACHE: session id -> messages of the latest checkpoint
    pc,         \* run -> "new" | "agent" | "tools" | "done"
    sess,       \* run -> session id of the request
    msgs,       \* run -> the run's messages channel
    step,       \* run -> supersteps executed
    rounds,     \* run -> tool round-trips completed
    nextId,     \* run -> tool calls issued so far (call ids)
    started,    \* run -> calls of the current batch whose invocation has begun
    inflight,   \* run -> indices of the current batch that are executing
    results,    \* run -> index -> ToolMessage of the returned calls
    events,     \* run -> lines yielded to the caller
    outcome,    \* run -> "none" | "ok" | "model_error" | "tool_error" | "out_of_steps" | "cancelled"
    sent,       \* run -> messages passed to llm_with_tools.invoke by the last model call
    doneAtCall, \* run -> runs of the same session already finished at that call
    endedBefore,\* run -> runs of the same session finished when it was submitted
    failures,   \* failing tool calls so far
    app,        \* the FastAPI application: "starting" | "serving" | "failed"
    graph_cache \* _GRAPH_CACHE: "None" | "graph" (compiled with the tools bound)
                \*   | "graph_without_tools"

VARIABLES
    fsFiles,    \* download endpoint: the paths of the files that exist
    dlName,     \* the filename of the last GET /download/{filename}
    dlStatus,   \* its HTTP status (0: no request yet)
    dlPath      \* the path of the file it served

VARIABLES
    projects,     \* db_utils: the rows of the projects table, row i has id i
    registeredBy, \* id -> the session whose read_file registered the row last
    disk,         \* server.py: the files of DATA_DIR, name and content
    toolResult,   \* what the last tool call returned
    lastCall,     \* the last tool call: tool, session, arguments
    saved         \* the markdown names that a save_proposal has written

chatVars == <<scenario, store, pc, sess, msgs, step, rounds, nextId, started, inflight,
              results, events, outcome, sent, doneAtCall, endedBefore,
              failures>>

startVars == <<app, graph_cache>>

dlVars == <<fsFiles, dlName, dlStatus, dlPath>>

dbVars == <<projects, registeredBy, disk, toolResult, lastCall, saved>>

vars == <<chatVars, startVars, dlVars, dbVars>>

\* ----------------------------------------------------------------- helpers
Range(f) == {f[i] : i \in DOMAIN f}

Count(seq, P(_)) == Cardinality({i \in DOMAIN seq : P(seq[i])})

Last(seq) == seq[Len(seq)]

Running(r) == pc[r] \in {"agent", "tools"}

\* The tool-call messages the model has returned so far, to all runs.
RECURSIVE ToolStepsUpTo(_)
ToolStepsUpTo(r) ==
    IF r = 0 THEN 0
    ELSE Cardinality({i \in DOMAIN msgs[r] : IsToolCalls(msgs[r][i]) /\ msgs[r][i].run = r})
         + ToolStepsUpTo(r - 1)

TotalToolSteps == ToolStepsUpTo(MaxRuns)

\* ----------------------------------------------------- agent.py: the graph
\* MessagesState: the messages channel is reduced with add_messages (append).
add_messages(left, right) == left \o right

\* Mutant of call_model_input: the state is sent as it is.
call_model_input_bare(messages) == messages

\* Mutant of call_model_input: the test is inverted, so a conversation that
\* does not begin with the prompt is sent without it.
call_model_input_inverted(messages) ==
    IF messages = <<>> \/ ~IsSystem(messages[1])
    THEN messages
    ELSE <<SYSTEM_PROMPT>> \o messages

\* call_model, lines 136-139: the system prompt is prepended to the list that
\* is sent, when the state does not already begin with a SystemMessage.
call_model_input(messages) ==
    IF messages = <<>> \/ ~IsSystem(messages[1])
    THEN <<SYSTEM_PROMPT>> \o messages
    ELSE messages

\* Mutant of call_model_update: the update returns the injected prompt along
\* with the response, so the prompt is appended to the state.
call_model_update_with_prompt(response) == <<SYSTEM_PROMPT, response>>

\* call_model, line 142: the state update holds the response alone.
call_model_update(response) == <<response>>

\* Mutant of tools_condition: the graph ends after every model step.
tools_condition_always_end(m) == "done"

\* tools_condition: route to the tool node iff the last message has tool calls.
tools_condition(m) == IF IsToolCalls(m) THEN "tools" ELSE "done"

\* Mutant of put_checkpoint: the graph is compiled without a checkpointer.
put_checkpoint_lost(st, s, m) == st

\* Mutant of put_checkpoint: one checkpoint for all threads.
put_checkpoint_global(st, s, m) == [t \in DOMAIN st |-> m]

\* compile(checkpointer=_MEMORY_CACHE): a checkpoint is written per superstep;
\* the latest checkpoint of a thread is the one written last.
put_checkpoint(st, s, m) == [st EXCEPT ![s] = m]

\* config thread_id = request.session_id: the run starts from the latest
\* checkpoint of its thread.
get_checkpoint(st, s) == st[s]

\* The call ids of one assistant tool-call message: n fresh ids of run r.
NewCalls(r, n, names) ==
    [i \in 1..n |-> [id |-> r * 100 + nextId[r] + i, name |-> names[i]]]

\* The batch the tool node is executing: the calls of the last message.
Batch(r) == Last(msgs[r]).calls

\* ------------------------------------------- main.py: the event encoding
agent_event(text) == [type |-> "agent", content |-> text]

tool_event(name) == [type |-> "tool", content |-> "Accessed Tool: " \o name]

error_event == [type |-> "error", content |-> "exception"]

\* CASE B filter, line 152: internal tools (prefixed with _) are not reported.
\* No tool of this model has such a name.
ReportsTool(name) == name # "" /\ name \in ToolNames

\* The content of a streamed chunk: a string, a list of parts (Gemini), or
\* something else; a part is a dict with a text, a string, or something else.
StrContent(t) == [kind |-> "str", text |-> t, parts |-> <<>>]

ListContent(ps) == [kind |-> "list", text |-> "", parts |-> ps]

OtherContent == [kind |-> "other", text |-> "", parts |-> <<>>]

DictPart(t) == [kind |-> "dict_text", text |-> t]

StrPart(t) == [kind |-> "str", text |-> t]

OtherPart == [kind |-> "other", text |-> ""]

ChunkContents ==
    {StrContent("text"), StrContent(""), OtherContent, ListContent(<<>>),
     ListContent(<<DictPart("te"), StrPart("xt")>>),
     ListContent(<<OtherPart, DictPart("")>>)}

\* Lines 132-140: a list is flattened to the texts of its parts, a string is
\* taken as it is, anything else gives "".
RECURSIVE flatten(_)
flatten(ps) ==
    IF ps = <<>> THEN ""
    ELSE (IF Head(ps).kind \in {"dict_text", "str"} THEN Head(ps).text ELSE "")
         \o flatten(Tail(ps))

final_text(content) ==
    IF content.kind = "list" THEN flatten(content.parts)
    ELSE IF content.kind = "str" THEN content.text
    ELSE ""

\* Mutant of on_chat_model_stream: the test of final_text is dropped, so a
\* chunk without text is yielded too.
on_chat_model_stream_unfiltered(ev, chunks) ==
    ev \o [i \in 1..Len(chunks) |-> agent_event(final_text(chunks[i]))]

\* CASE A, lines 118-146: the content of every on_chat_model_stream chunk is
\* flattened to a string and yielded as an agent line if it is not empty.
on_chat_model_stream(ev, chunks) ==
    LET texts == SelectSeq(chunks, LAMBDA c : final_text(c) # "")
    IN ev \o [i \in 1..Len(texts) |-> agent_event(final_text(texts[i]))]

\* Mutant of on_exception: the error line is yielded twice.
on_exception_twice(ev) == Append(Append(ev, error_event), error_event)

\* The except branch of event_generator, lines 158-160: one error line, and
\* the generator returns.
on_exception(ev) == Append(ev, error_event)

\* -------------------------------------------------------------------- Init
TypeInit ==
    /\ store = [s \in Sessions |-> <<>>]
    /\ pc = [r \in Runs |-> "new"]
    /\ sess = [r \in Runs |-> NoSession]
    /\ msgs = [r \in Runs |-> <<>>]
    /\ step = [r \in Runs |-> 0]
    /\ rounds = [r \in Runs |-> 0]
    /\ nextId = [r \in Runs |-> 0]
    /\ started = [r \in Runs |-> 0]
    /\ inflight = [r \in Runs |-> {}]
    /\ results = [r \in Runs |-> <<>>]
    /\ events = [r \in Runs |-> <<>>]
    /\ outcome = [r \in Runs |-> "none"]
    /\ sent = [r \in Runs |-> <<>>]
    /\ doneAtCall = [r \in Runs |-> {}]
    /\ endedBefore = [r \in Runs |-> {}]
    /\ failures = 0

\* The download endpoint and the tool server at rest.
DownloadIdle == fsFiles = {} /\ dlName = <<>> /\ dlStatus = 0 /\ dlPath = <<>>

NoResult == [text |-> "", file |-> <<>>, db |-> ""]

NoCall == [tool |-> "", session |-> "", filename |-> <<>>, text |-> ""]

ToolsIdle ==
    /\ projects = <<>> /\ registeredBy = <<>> /\ disk = {}
    /\ toolResult = NoResult /\ lastCall = NoCall /\ saved = {}

\* The process before lifespan has run: _GRAPH_CACHE = None.
StartInit == app = "starting" /\ graph_cache = "None"

\* No chat request is in the behaviour.
ChatIdle == scenario = "none" /\ TypeInit /\ StartInit

Init == scenario = "chat" /\ TypeInit /\ StartInit /\ DownloadIdle /\ ToolsIdle

InitDeep == scenario = "deep" /\ TypeInit /\ StartInit /\ DownloadIdle /\ ToolsIdle

InitStream == scenario = "stream" /\ TypeInit /\ StartInit /\ DownloadIdle /\ ToolsIdle

\* ----------------------------------------------------------------- startup
\* Mutant of initialize_agent: a failed discovery is swallowed and the graph
\* is compiled without tools.
initialize_agent_swallow(cache, discovered) ==
    IF cache # "None" THEN cache
    ELSE IF discovered THEN "graph" ELSE "graph_without_tools"

\* initialize_agent, lines 110-161: the cached graph is returned if there is
\* one; otherwise the graph is compiled and cached after client.get_tools()
\* has returned; an exception is logged and raised again, and _GRAPH_CACHE
\* stays None (the value "None" stands for the raise as well).
initialize_agent(cache, discovered) ==
    IF cache # "None" THEN cache
    ELSE IF discovered THEN "graph" ELSE "None"

\* lifespan, lines 40-49: the application serves requests after
\* initialize_agent has returned; if it raises, startup fails and the
\* server exits.
Startup(discovered) ==
    /\ app = "starting"
    /\ graph_cache' = initialize_agent(graph_cache, discovered)
    /\ app' = IF initialize_agent(graph_cache, discovered) = "None"
              THEN "failed" ELSE "serving"
    /\ UNCHANGED <<chatVars, dlVars, dbVars>>

\* Mutant of Accepts: a per-session lease that only a normal end releases.
Accepts_lease_leak(r, s) ==
    \A q \in Runs : sess[q] = s => (pc[q] = "done" /\ outcome[q] = "ok")

\* chat_endpoint, lines 95-162: the StreamingResponse is returned for every
\* request; no lock, lease or run-state of the session is consulted.
Accepts(r, s) == TRUE

\* ----------------------------------------------------------------- actions
\* POST /chat: chat_endpoint returns the StreamingResponse at once, for any
\* session id and whatever else is running; event_generator begins the graph
\* run: the latest checkpoint of the thread is loaded, the HumanMessage is
\* appended, and the input checkpoint is written.  The session ids are
\* interchangeable: the first request is taken to name "s1".
Submit(r, s) ==
    /\ app = "serving"
    /\ initialize_agent(graph_cache, TRUE) = graph_cache
    /\ Accepts(r, s)
    /\ pc[r] = "new"
    /\ \A q \in Runs : q < r => pc[q] # "new"
    /\ scenario \in {"deep", "stream"} => r = 1
    /\ r = 1 => s = "s1"
    /\ LET m == add_messages(get_checkpoint(store, s), <<HumanMessage(r)>>)
       IN /\ msgs' = [msgs EXCEPT ![r] = m]
          /\ store' = put_checkpoint(store, s, m)
    /\ sess' = [sess EXCEPT ![r] = s]
    /\ pc' = [pc EXCEPT ![r] = "agent"]
    /\ endedBefore' = [endedBefore EXCEPT ![r] =
                          {q \in Runs : sess[q] = s /\ pc[q] = "done"}]
    /\ UNCHANGED <<scenario, step, rounds, nextId, started, inflight, results,
                   events, outcome, sent, doneAtCall, failures>>
    /\ UNCHANGED <<startVars, dlVars, dbVars>>

\* What every model call records: the list passed to llm_with_tools.invoke.
ModelCall(r) ==
    /\ pc[r] = "agent"
    /\ step[r] < recursion_limit
    /\ sent' = [sent EXCEPT ![r] = call_model_input(msgs[r])]
    /\ doneAtCall' = [doneAtCall EXCEPT ![r] =
                        {q \in Runs \ {r} : sess[q] = sess[r] /\ pc[q] = "done"}]

\* The agent node with a model response; the checkpoint of the superstep is
\* written and tools_condition picks the next node.
AgentStep(r, response, ev) ==
    /\ ModelCall(r)
    /\ LET m == add_messages(msgs[r], call_model_update(response))
       IN /\ msgs' = [msgs EXCEPT ![r] = m]
          /\ store' = put_checkpoint(store, sess[r], m)
          /\ pc' = [pc EXCEPT ![r] = tools_condition(Last(m))]
          /\ outcome' = [outcome EXCEPT ![r] =
                           IF tools_condition(Last(m)) = "done" THEN "ok" ELSE @]
    /\ step' = [step EXCEPT ![r] = @ + 1]
    /\ events' = [events EXCEPT ![r] = ev]
    /\ started' = [started EXCEPT ![r] = 0]
    /\ inflight' = [inflight EXCEPT ![r] = {}]
    /\ results' = [results EXCEPT ![r] = <<>>]

\* The model answers without tool calls: the on_chat_model_stream chunks
\* with text are yielded as agent lines; the turn ends.  Bound of the model:
\* the forms of chunk content are explored in the streaming scenario.
ModelText(r, content) ==
    /\ content # StrContent("text") => scenario = "stream"
    /\ AgentStep(r, AIText(r), on_chat_model_stream(events[r], <<content>>))
    /\ UNCHANGED <<scenario, sess, rounds, nextId, failures>>
    /\ UNCHANGED <<endedBefore, startVars, dlVars, dbVars>>

\* The model requests n tool calls: the chunk that carries the calls has no
\* text and is not yielded; the model may stream text before it (withText).
\* Bounds of the model: the content is free for the first MaxToolSteps
\* tool-call messages of a behaviour; messages with several calls are
\* explored in the one-turn scenarios: in "stream" with text before the
\* calls, in "deep" with a long tool loop that goes on with single calls of
\* a registered tool.
ModelToolCalls(r, n, names, withText) ==
    /\ scenario = "chat" => n = 1
    /\ withText => scenario = "stream"
    /\ \/ TotalToolSteps < MaxToolSteps
       \/ scenario = "deep" /\ n = 1 /\ names[1] \in RegisteredTools /\ ~withText
    /\ LET bad == Cardinality({i \in 1..n : names[i] \notin RegisteredTools})
       IN /\ failures + bad <= MaxFailures
          /\ failures' = failures + bad
    /\ AgentStep(r, AIToolCalls(r, NewCalls(r, n, names)),
                 on_chat_model_stream(events[r],
                     IF withText THEN <<StrContent("text"), StrContent("")>>
                     ELSE <<StrContent("")>>))
    /\ nextId' = [nextId EXCEPT ![r] = @ + n]
    /\ UNCHANGED <<scenario, sess, rounds>>
    /\ UNCHANGED <<endedBefore, startVars, dlVars, dbVars>>

\* llm_with_tools.invoke raises: the exception leaves astream_events and is
\* caught by event_generator; no checkpoint is written for the superstep.
ModelError(r) ==
    /\ ModelCall(r)
    /\ events' = [events EXCEPT ![r] = on_exception(@)]
    /\ pc' = [pc EXCEPT ![r] = "done"]
    /\ outcome' = [outcome EXCEPT ![r] = "model_error"]
    /\ UNCHANGED <<scenario, store, sess, msgs, step, rounds, nextId, started,
                   inflight, results, failures>>
    /\ UNCHANGED <<endedBefore, startVars, dlVars, dbVars>>

\* ------------------------------------------------- ToolNode(tools), async
\* ToolNode runs the calls of the last message as coroutines gathered
\* together: every call is begun in issuance order, a call suspended in its
\* provider request does not hold back the next one, and the ToolMessages are
\* collected in issuance order.  When the last call has returned, the results
\* are appended and the checkpoint of the superstep is written.
ToolsAdvance(r, st, inf, res) ==
    LET n == Len(Batch(r))
    IN IF st = n /\ inf = {}
       THEN LET m == add_messages(msgs[r], [i \in 1..n |-> res[i]])
            IN /\ msgs' = [msgs EXCEPT ![r] = m]
               /\ store' = put_checkpoint(store, sess[r], m)
               /\ pc' = [pc EXCEPT ![r] = "agent"]
               /\ step' = [step EXCEPT ![r] = @ + 1]
               /\ rounds' = [rounds EXCEPT ![r] = @ + 1]
               /\ started' = [started EXCEPT ![r] = 0]
               /\ inflight' = [inflight EXCEPT ![r] = {}]
               /\ results' = [results EXCEPT ![r] = <<>>]
       ELSE /\ started' = [started EXCEPT ![r] = st]
            /\ inflight' = [inflight EXCEPT ![r] = inf]
            /\ results' = [results EXCEPT ![r] = res]
            /\ UNCHANGED <<msgs, store, pc, step, rounds>>

\* Mutant of BeginEvents: on_tool_start is not reported.
BeginEvents_silent(r) == <<>>

\* The tool step begins: the calls are begun in issuance order before any of
\* them returns (each coroutine runs to its first wait on the provider).  For
\* a registered tool on_tool_start is yielded as a tool line and the provider
\* request is in progress; a name the node does not hold is answered by the
\* node itself with an error ToolMessage: no tool is run and nothing is
\* yielded.
BeginEvents(r) ==
    LET known == SelectSeq(Batch(r), LAMBDA c : c.name \in RegisteredTools /\ ReportsTool(c.name))
    IN [i \in 1..Len(known) |-> tool_event(known[i].name)]

ToolsBegin(r) ==
    /\ pc[r] = "tools"
    /\ started[r] = 0
    /\ step[r] < recursion_limit
    /\ LET n == Len(Batch(r))
           known == {k \in 1..n : Batch(r)[k].name \in RegisteredTools}
           unknown == (1..n) \ known
       IN /\ events' = [events EXCEPT ![r] = @ \o BeginEvents(r)]
          /\ ToolsAdvance(r, n, known,
                          [k \in unknown |-> ToolMessage(r, Batch(r)[k].id, TRUE)])
    /\ UNCHANGED <<scenario, sess, nextId, outcome, sent, doneAtCall, failures>>
    /\ UNCHANGED <<endedBefore, startVars, dlVars, dbVars>>

\* A call in progress returns text: the tool's result, or (e) the text of a
\* failure inside the tool body, such as web_search's "Search Error: ...".
ToolReturn(r, k, e) ==
    /\ pc[r] = "tools"
    /\ k \in inflight[r]
    /\ e => failures < MaxFailures
    /\ failures' = IF e THEN failures + 1 ELSE failures
    /\ ToolsAdvance(r, started[r], inflight[r] \ {k},
                    results[r] @@ (k :> ToolMessage(r, Batch(r)[k].id, e)))
    /\ UNCHANGED <<scenario, sess, nextId, events, outcome, sent, doneAtCall>>
    /\ UNCHANGED <<endedBefore, startVars, dlVars, dbVars>>

\* A call in progress raises (the provider reports a failure, or the
\* transport breaks) and the node's handle_tool_errors turns the exception
\* into an error ToolMessage.
ToolRaiseHandled(r, k) ==
    /\ pc[r] = "tools"
    /\ k \in inflight[r]
    /\ failures < MaxFailures
    /\ failures' = failures + 1
    /\ ToolsAdvance(r, started[r], inflight[r] \ {k},
                    results[r] @@ (k :> ToolMessage(r, Batch(r)[k].id, TRUE)))
    /\ UNCHANGED <<scenario, sess, nextId, events, outcome, sent, doneAtCall>>
    /\ UNCHANGED <<endedBefore, startVars, dlVars, dbVars>>

\* A call in progress raises and the node re-raises it (ToolNode(tools) is
\* built without handle_tool_errors, and the default of the installed
\* langgraph decides: since 1.0 only invalid-argument errors are handled):
\* the exception leaves astream_events and is caught by event_generator; no
\* checkpoint is written for the superstep.
ToolRaisePropagates(r, k) ==
    /\ pc[r] = "tools"
    /\ k \in inflight[r]
    /\ failures < MaxFailures
    /\ failures' = failures + 1
    /\ events' = [events EXCEPT ![r] = on_exception(@)]
    /\ pc' = [pc EXCEPT ![r] = "done"]
    /\ outcome' = [outcome EXCEPT ![r] = "tool_error"]
    /\ inflight' = [inflight EXCEPT ![r] = {}]
    /\ UNCHANGED <<scenario, store, sess, msgs, step, rounds, nextId, started,
                   results, sent, doneAtCall>>
    /\ UNCHANGED <<endedBefore, startVars, dlVars, dbVars>>

\* The superstep budget of the call is used up and a node is still to run:
\* GraphRecursionError leaves astream_events and is caught by event_generator.
OutOfSteps(r) ==
    /\ Running(r)
    /\ started[r] = 0 /\ inflight[r] = {}
    /\ step[r] >= recursion_limit
    /\ events' = [events EXCEPT ![r] = on_exception(@)]
    /\ pc' = [pc EXCEPT ![r] = "done"]
    /\ outcome' = [outcome EXCEPT ![r] = "out_of_steps"]
    /\ UNCHANGED <<scenario, store, sess, msgs, step, rounds, nextId, started,
                   inflight, results, sent, doneAtCall, failures>>
    /\ UNCHANGED <<endedBefore, startVars, dlVars, dbVars>>

\* The client goes away in mid-stream: the streaming response cancels
\* event_generator (CancelledError is no Exception: nothing is yielded).
Disconnect(r) ==
    /\ Running(r)
    /\ pc' = [pc EXCEPT ![r] = "done"]
    /\ outcome' = [outcome EXCEPT ![r] = "cancelled"]
    /\ inflight' = [inflight EXCEPT ![r] = {}]
    /\ UNCHANGED <<scenario, store, sess, msgs, step, rounds, nextId, started,
                   results, events, sent, doneAtCall, failures>>
    /\ UNCHANGED <<endedBefore, startVars, dlVars, dbVars>>

\* ------------------------------------------------------------ specification
Names(n) == [1..n -> ToolNames]

Next ==
    \/ \E discovered \in BOOLEAN : Startup(discovered)
    \/ \E r \in Runs, s \in Sessions : Submit(r, s)
    \/ \E r \in Runs, content \in ChunkContents : ModelText(r, content)
    \/ \E r \in Runs, n \in 1..MaxBatch, withText \in BOOLEAN :
          \E names \in Names(n) : ModelToolCalls(r, n, names, withText)
    \/ \E r \in Runs : ModelError(r)
    \/ \E r \in Runs : ToolsBegin(r)
    \/ \E r \in Runs, k \in 1..MaxBatch, e \in BOOLEAN : ToolReturn(r, k, e)
    \/ \E r \in Runs, k \in 1..MaxBatch : ToolRaiseHandled(r, k)
    \/ \E r \in Runs, k \in 1..MaxBatch : ToolRaisePropagates(r, k)
    \/ \E r \in Runs : Disconnect(r)

Spec == Init /\ [][Next]_vars

\* One turn whose tool loop may run up to the superstep limit.
NextDeep == Next \/ \E r \in Runs : OutOfSteps(r)

SpecDeep == InitDeep /\ [][NextDeep]_vars

\* One turn whose model steps stream text in all forms of chunk content.
SpecStream == InitStream /\ [][Next]_vars

\* ------------------------------------------- main.py: GET /download/{filename}
\* A filename is a string, here a sequence of characters.  A path of the
\* file system is a sequence of components, a component a sequence of
\* characters.
Chars == {"a", ".", "/"}

Filenames == UNION {[1..n -> Chars] : n \in 1..MaxNameLen}

\* MCP_DATA_DIR, lines 25-26: an absolute path.
MCP_DATA_DIR == <<"/", "d">>

DataDir == << <<"d">> >>

\* The files that may exist: one in the data directory, one in a directory
\* inside it, one beside the data directory (in the root).
PossibleFiles ==
    {DataDir \o << <<"a">> >>, DataDir \o << <<".", "a">>, <<"a">> >>, << <<"a">> >>}

\* The directories that exist: the root, the data directory (line 29,
\* os.makedirs) and the directories of the files.
Dirs(files) ==
    {<<>>, DataDir} \cup UNION {{SubSeq(f, 1, n) : n \in 0..(Len(f) - 1)} : f \in files}

\* ".." in filename, "/" in filename.
HasDotDot(name) == \E i \in 1..(Len(name) - 1) : name[i] = "." /\ name[i + 1] = "."

HasSlash(name) == \E i \in 1..Len(name) : name[i] = "/"

\* os.path.join(MCP_DATA_DIR, filename): a filename that begins with "/"
\* replaces the directory.
path_join(dir, name) ==
    IF Len(name) > 0 /\ name[1] = "/" THEN name ELSE dir \o <<"/">> \o name

\* The components of a path string, split at "/".
RECURSIVE Split(_, _)
Split(str, cur) ==
    IF str = <<>> THEN (IF cur = <<>> THEN <<>> ELSE <<cur>>)
    ELSE IF Head(str) = "/"
         THEN (IF cur = <<>> THEN <<>> ELSE <<cur>>) \o Split(Tail(str), <<>>)
         ELSE Split(Tail(str), Append(cur, Head(str)))

\* The operating system's lookup of the components from directory at:
\* "." stays, ".." goes up, a name goes down; what is passed through must be
\* a directory.  The result is the path found, or NotFound.
NotFound == << <<"/">> >>

RECURSIVE Lookup(_, _, _)
Lookup(files, at, comps) ==
    IF comps = <<>> THEN at
    ELSE IF at \notin Dirs(files) THEN NotFound
    ELSE IF Head(comps) = <<".">> THEN Lookup(files, at, Tail(comps))
    ELSE IF Head(comps) = <<".", ".">>
         THEN Lookup(files, IF at = <<>> THEN at ELSE SubSeq(at, 1, Len(at) - 1),
                     Tail(comps))
    ELSE IF Append(at, Head(comps)) \in files \cup Dirs(files)
         THEN Lookup(files, Append(at, Head(comps)), Tail(comps))
    ELSE NotFound

Resolve(files, path) ==
    IF path[Len(path)] = "/" /\ Lookup(files, <<>>, Split(path, <<>>)) \in files
    THEN NotFound
    ELSE Lookup(files, <<>>, Split(path, <<>>))

\* os.path.exists(file_path).
path_exists(files, path) == Resolve(files, path) # NotFound

\* Mutant of InvalidFilename: only ".." is looked for.
InvalidFilename_dots_only(name) == HasDotDot(name)

\* Line 171: if ".." in filename or "/" in filename.
InvalidFilename(name) == HasDotDot(name) \/ HasSlash(name)

\* download_file, lines 166-182.  FileResponse sends a regular file; for a
\* path that is no regular file it raises while sending (status 500).
Download(name) ==
    /\ dlStatus = 0
    /\ dlName' = name
    /\ IF InvalidFilename(name)
       THEN dlStatus' = 400 /\ dlPath' = <<>>
       ELSE /\ dlPath' = path_join(MCP_DATA_DIR, name)
            /\ dlStatus' = IF ~path_exists(fsFiles, path_join(MCP_DATA_DIR, name))
                           THEN 404
                           ELSE IF Resolve(fsFiles, path_join(MCP_DATA_DIR, name))
                                      \in fsFiles
                                THEN 200 ELSE 500
    /\ UNCHANGED <<fsFiles, chatVars, startVars, dbVars>>

InitDownload ==
    /\ ChatIdle /\ ToolsIdle
    /\ fsFiles \in SUBSET PossibleFiles
    /\ dlName = <<>> /\ dlStatus = 0 /\ dlPath = <<>>

NextDownload == \E name \in Filenames : Download(name)

SpecDownload == InitDownload /\ [][NextDownload]_vars

\* ------------------------------------------------ mcp-server: db_utils.py
\* A filename is a string, here a sequence of characters.  A row of the projects
\* table has the columns filename, status and proposal_content (created_at,
\* which nothing reads, is left out); its id is its position.
NULL == "NULL"

Row(f, st, p) == [filename |-> f, status |-> st, proposal_content |-> p]

\* The ids of the rows WHERE filename = f.
Matching(rows, f) == {i \in DOMAIN rows : rows[i].filename = f}

\* Mutant of add_project: the SELECT is dropped and a row is always inserted.
add_project_insert(rows, f) ==
    Append(rows, [filename |-> f, status |-> "PROCESSING", proposal_content |-> "NULL"])

\* add_project, lines 43-73: a row of that filename is reset to PROCESSING,
\* otherwise a row is inserted.
add_project(rows, f) ==
    IF Matching(rows, f) # {}
    THEN LET id == CHOOSE i \in Matching(rows, f) : \A j \in Matching(rows, f) : i <= j
         IN [rows EXCEPT ![id].status = "PROCESSING"]
    ELSE Append(rows, Row(f, "PROCESSING", NULL))

\* if proposal: None and "" are false.
Truthy(p) == p # NULL /\ p # ""

\* UPDATE projects SET status = ? [, proposal_content = ?] WHERE filename = ?
update_where(rows, f, st, p, withProposal) ==
    [i \in DOMAIN rows |->
        IF rows[i].filename # f THEN rows[i]
        ELSE IF withProposal THEN Row(f, st, p)
        ELSE [rows[i] EXCEPT !.status = st]]

\* c.rowcount after a SELECT (sqlite3: always -1).
rowcount_after_select == -1

\* Mutant of select_fallback: ORDER BY id ASC.
select_fallback_oldest(rows) ==
    LET proc == {i \in DOMAIN rows : rows[i].status = "PROCESSING"}
    IN IF proc = {} THEN 0 ELSE CHOOSE i \in proc : \A j \in proc : i <= j

\* The row of SELECT filename ... WHERE status='PROCESSING' ORDER BY id DESC
\* LIMIT 1; 0 if there is none.
select_fallback(rows) ==
    LET proc == {i \in DOMAIN rows : rows[i].status = "PROCESSING"}
    IN IF proc = {} THEN 0 ELSE CHOOSE i \in proc : \A j \in proc : j <= i

\* update_status, lines 76-129: the rows after the call and rows_affected.
update_status_rows(rows, f, st, p) ==
    LET exact == Cardinality(Matching(rows, f))
        fb == select_fallback(rows)
    IN IF exact = 0 /\ st = "COMPLETED"
       THEN IF fb # 0
            THEN IF Truthy(p)
                 THEN [rows |-> update_where(rows, rows[fb].filename, st, p, TRUE),
                       affected |-> Cardinality(Matching(rows, rows[fb].filename))]
                 ELSE [rows |-> rows, affected |-> rowcount_after_select]
            ELSE [rows |-> rows, affected |-> 0]
       ELSE [rows |-> update_where(rows, f, st, p, Truthy(p)), affected |-> exact]

NotFoundWarning == "Warning: Database update failed. Project not found."

UpdatedMessage == "Database updated successfully."

update_status(rows, f, st, p) ==
    [rows |-> update_status_rows(rows, f, st, p).rows,
     msg |-> IF update_status_rows(rows, f, st, p).affected = 0
             THEN NotFoundWarning ELSE UpdatedMessage]

\* -------------------------------------------------- mcp-server: server.py
\* The strings of the filename normalization, as sequences of characters.
PROPOSAL_FOR == <<"P", "r", "o", "p", "o", "s", "a", "l", "_", "f", "o", "r", "_">>

DOT_MD == <<".", "m", "d">>

DOT_PDF == <<".", "p", "d", "f">>

\* str.replace(old, ""): the occurrences of old, found from left to right
\* without overlap, are removed.
RECURSIVE str_remove(_, _)
str_remove(str, old) ==
    IF Len(str) < Len(old) THEN str
    ELSE IF SubSeq(str, 1, Len(old)) = old
         THEN str_remove(SubSeq(str, Len(old) + 1, Len(str)), old)
         ELSE <<Head(str)>> \o str_remove(Tail(str), old)

Original == {<<"a">> \o DOT_PDF, <<"b">> \o DOT_PDF}

\* The filenames a model passes: the original names and a derived one.
ToolFilenames == Original \cup {PROPOSAL_FOR \o <<"a">> \o DOT_PDF}

ProposalOf(s) == "proposal of " \o s

\* Lines 189-191: the name of the markdown file.
base_name(f) == str_remove(str_remove(str_remove(f, PROPOSAL_FOR), DOT_MD), DOT_PDF)

disk_filename(f) == PROPOSAL_FOR \o base_name(f) \o DOT_MD

File(name, content) == [name |-> name, content |-> content]

write_file(d, name, content) == {x \in d : x.name # name} \cup {File(name, content)}

\* read_file, lines 117-135, called by a turn of session s: the project is
\* registered, then the PDF is parsed.  Bound of the model: the files read
\* are the uploaded ones.
read_file(s, f) ==
    /\ projects' = add_project(projects, f)
    /\ registeredBy' = [i \in DOMAIN add_project(projects, f) |->
                          IF add_project(projects, f)[i].filename = f
                          THEN s ELSE registeredBy[i]]
    /\ toolResult' = [text |-> IF \E x \in disk : x.name = f
                               THEN "markdown" ELSE "Error: File not found",
                      file |-> f, db |-> ""]
    /\ lastCall' = [tool |-> "read_file", session |-> s, filename |-> f, text |-> ""]
    /\ UNCHANGED <<disk, saved, chatVars, startVars, dlVars>>

\* save_proposal, lines 180-208, called by a turn of session s: the markdown
\* file is written (written: open and write succeed), then the database is
\* updated with the filename as it was passed.
save_proposal(s, f, text, written) ==
    /\ lastCall' = [tool |-> "save_proposal", session |-> s, filename |-> f,
                    text |-> text]
    /\ IF written
       THEN /\ disk' = write_file(disk, disk_filename(f), text)
            /\ saved' = saved \cup {disk_filename(f)}
            /\ projects' = update_status(projects, f, "COMPLETED", text).rows
            /\ toolResult' = [text |-> "Saved proposal", file |-> disk_filename(f),
                              db |-> update_status(projects, f, "COMPLETED", text).msg]
       ELSE /\ toolResult' = [text |-> "Error saving file to disk", file |-> <<>>,
                              db |-> ""]
            /\ UNCHANGED <<disk, projects, saved>>
    /\ UNCHANGED <<registeredBy, chatVars, startVars, dlVars>>

\* Lines 221-222 and 289: the names of the markdown file read and of the
\* PDF file written.
md_filename(f) == PROPOSAL_FOR \o base_name(f) \o DOT_MD

pdf_filename(f) == PROPOSAL_FOR \o base_name(f) \o DOT_PDF

Exists(d, name) == \E x \in d : x.name = name

MarkdownNotFound == "Error: Markdown file not found. Ensure save_proposal was called first."

\* Mutant of convert_guard: the test for the markdown file is dropped.
convert_guard_dropped(d, f) == TRUE

\* Line 224: os.path.exists(md_path).
convert_guard(d, f) == Exists(d, md_filename(f))

\* convert_to_pdf, lines 211-308, called by a turn of session s.  Without
\* the markdown file the error text is returned before anything is written.
\* Otherwise the outcome is the download URL ("ok"), a PDF file written with
\* pisa reporting an error ("pisa_err"), or an exception before the PDF
\* file is opened ("exception"); every one is returned as text.
convert_to_pdf(s, f, result) ==
    /\ lastCall' = [tool |-> "convert_to_pdf", session |-> s, filename |-> f,
                    text |-> ""]
    /\ IF ~convert_guard(disk, f)
       THEN /\ toolResult' = [text |-> MarkdownNotFound, file |-> <<>>, db |-> ""]
            /\ disk' = disk
       ELSE IF result = "exception"
       THEN /\ toolResult' = [text |-> "Unexpected Error during PDF conversion",
                              file |-> <<>>, db |-> ""]
            /\ disk' = disk
       ELSE /\ disk' = write_file(disk, pdf_filename(f), "pdf")
            /\ toolResult' =
                  IF result = "pisa_err"
                  THEN [text |-> "Error generating PDF", file |-> <<>>, db |-> ""]
                  ELSE [text |-> "http://localhost:8001/download/",
                        file |-> pdf_filename(f), db |-> ""]
    /\ UNCHANGED <<projects, registeredBy, saved, chatVars, startVars, dlVars>>

\* The tool server after the uploads: init_db has created the empty table.
InitTools ==
    /\ ChatIdle /\ DownloadIdle
    /\ projects = <<>> /\ registeredBy = <<>>
    /\ disk = {File(f, "pdf") : f \in Original}
    /\ toolResult = NoResult /\ lastCall = NoCall /\ saved = {}

\* The tool calls of the turns of two sessions, in any interleaving (the
\* tool functions are synchronous: the server runs one call at a time).
NextTools ==
    \/ \E s \in Sessions, f \in Original : read_file(s, f)
    \/ \E s \in Sessions, f \in ToolFilenames, written \in BOOLEAN :
          \E text \in {"", ProposalOf(s)} : save_proposal(s, f, text, written)

SpecTools == InitTools /\ [][NextTools]_vars

\* The names passed to convert_to_pdf: an original name, the names of the
\* files written for it, and the name of another file.
ConvertFilenames ==
    {<<"a">> \o DOT_PDF, PROPOSAL_FOR \o <<"a">> \o DOT_MD,
     PROPOSAL_FOR \o <<"a">> \o DOT_PDF, <<"b">> \o DOT_PDF}

\* The saves and conversions of one session's turns.
NextConvert ==
    \/ \E f \in ToolFilenames, written \in BOOLEAN, text \in {"", ProposalOf("s1")} :
          save_proposal("s1", f, text, written)
    \/ \E f \in ConvertFilenames, result \in {"ok", "pisa_err", "exception"} :
          convert_to_pdf("s1", f, result)

SpecConvert == InitTools /\ [][NextConvert]_vars

\* Filenames for the normalization: up to MaxParts pieces, among them the
\* three strings that are removed and parts of them.
Pieces == {PROPOSAL_FOR, DOT_MD, DOT_PDF, <<"x">>, <<".", "m">>, <<"d">>}

RECURSIVE Concat(_)
Concat(ps) == IF ps = <<>> THEN <<>> ELSE Head(ps) \o Concat(Tail(ps))

NameInputs == {Concat(ps) : ps \in UNION {[1..n -> Pieces] : n \in 1..MaxParts}}

\* The names under which the proposal saved for f is asked for: the original
\* name, the name of the markdown file, the name of the PDF file.
NamesOf(f) == {f, disk_filename(f), PROPOSAL_FOR \o base_name(f) \o DOT_PDF}

\* One proposal is saved under any filename, then converted under one of its
\* names.
NextNames ==
    \/ \E f \in NameInputs :
          lastCall = NoCall /\ save_proposal("s1", f, ProposalOf("s1"), TRUE)
    \/ \E g \in NameInputs \cup UNION {NamesOf(f) : f \in NameInputs} :
          /\ lastCall.tool = "save_proposal" /\ g \in NamesOf(lastCall.filename)
          /\ convert_to_pdf("s1", g, "ok")

SpecNames == InitTools /\ [][NextNames]_vars

\* ------------------------------------------------------------------ claims
ErrorLines(r) == Count(events[r], LAMBDA e : e.type = "error")

\* The messages a run appended itself.
Own(r) == {m \in Range(msgs[r]) : m.run = r}

\* The position of the first assistant text after position i (0: none).
NextText(h, i) ==
    IF \E j \in (i + 1)..Len(h) : IsAssistantText(h[j])
    THEN CHOOSE j \in (i + 1)..Len(h) :
            /\ IsAssistantText(h[j])
            /\ \A k \in (i + 1)..(j - 1) : ~IsAssistantText(h[k])
    ELSE 0

\* The call ids of the tool results between positions i and j, in order.
ResultIds(h, i, j) ==
    LET between == SubSeq(h, i + 1, j - 1)
        tools == SelectSeq(between, LAMBDA m : m.type = "tool")
    IN [k \in 1..Len(tools) |-> tools[k].call_id]

CallIds(m) == [k \in 1..Len(m.calls) |-> m.calls[k].id]

\* Every tool-call message that a later assistant text follows has, before
\* that text, exactly the results of its calls, in issuance order.
WellPaired(h) ==
    \A i \in 1..Len(h) :
        (IsToolCalls(h[i]) /\ NextText(h, i) # 0)
            => ResultIds(h, i, NextText(h, i)) = CallIds(h[i])

\* C1: for every session id at most one turn is executing at any time (a
\* request arriving while a turn of its session runs is refused).
C1_OneTurnPerSession ==
    \A r1 \in Runs, r2 \in Runs :
        (r1 # r2 /\ Running(r1) /\ Running(r2)) => sess[r1] # sess[r2]

\* C2: in every stored history, each assistant tool-call message is followed,
\* before any later assistant text, by exactly one tool result per requested
\* call, matched by call id and in issuance order.
C2_ToolCallsAnswered == \A s \in Sessions : WellPaired(store[s])

\* C3: a failing tool call never aborts the turn: no turn ends with the
\* exception of a tool call, and no error line is sent for one.
C3_ToolFailureNeverAborts == \A r \in Runs : outcome[r] # "tool_error"

\* C4: when the model backend fails in the middle of a turn, every message
\* appended before the failure remains in the session's stored history.
C4_PartialHistoryKept ==
    \A r \in Runs :
        outcome[r] = "model_error" => Own(r) \subseteq Range(store[sess[r]])

\* C5: a turn that ends because the model backend failed sends exactly one
\* error line; every turn sends at most one, it is the last line of its
\* stream and the turn is over, and a turn that ends normally sends none.
C5_OneErrorEventLast ==
    \A r \in Runs :
        /\ ErrorLines(r) <= 1
        /\ ErrorLines(r) = 1 => (Last(events[r]).type = "error" /\ pc[r] = "done")
        /\ outcome[r] = "model_error" => ErrorLines(r) = 1
        /\ outcome[r] = "ok" => ErrorLines(r) = 0

\* A turn made one tool round-trip, then the model failed: its stream holds
\* the tool line and ends with the one error line.
C5_Witness ==
    \E r \in Runs :
        /\ outcome[r] = "model_error"
        /\ rounds[r] = 1
        /\ Len(events[r]) >= 2
        /\ Last(events[r]).type = "error"

\* C6: the tool calls of one model step are executed one at a time: no two
\* invocations of the same turn are in progress at the same time.
C6_ToolsOneAtATime == \A r \in Runs : Cardinality(inflight[r]) <= 1

\* C7 as stated: the loop itself never stops a turn because of how many
\* tool round-trips it has already made.
C7_LoopNeverStopsTurn == \A r \in Runs : outcome[r] # "out_of_steps"

\* C7, amended: a turn runs at most recursion_limit supersteps; it ends
\* normally exactly when the model returns a response with no tool calls,
\* and otherwise on an error line (the model's or a tool's exception, or the
\* superstep limit, reached only with every superstep used up and a node
\* still to run) or on the client's disconnect.
C7_EndsOnTextOrErrorOrLimit ==
    \A r \in Runs :
        /\ step[r] <= recursion_limit
        /\ outcome[r] = "ok" <=>
              (pc[r] # "new" /\ IsAssistantText(Last(msgs[r])) /\ Last(msgs[r]).run = r)
        /\ outcome[r] = "ok" => pc[r] = "done"
        /\ (pc[r] = "done" /\ outcome[r] # "ok") =>
              \/ outcome[r] = "cancelled"
              \/ /\ outcome[r] \in {"model_error", "tool_error", "out_of_steps"}
                 /\ Last(events[r]).type = "error"
        /\ outcome[r] = "out_of_steps" =>
              (step[r] = recursion_limit /\ pc[r] = "done" /\ ~IsAssistantText(Last(msgs[r])))

\* A turn whose model kept requesting tools was stopped by the limit after
\* twelve round-trips and a thirteenth tool-call message.
C7_Witness ==
    \E r \in Runs :
        /\ outcome[r] = "out_of_steps"
        /\ rounds[r] = (recursion_limit - 1) \div 2
        /\ IsToolCalls(Last(msgs[r]))

\* C8: in every stored history the system-instruction message occurs at most
\* once, and if it occurs it is the first element.
C8_SystemAtMostOnceFirst ==
    \A s \in Sessions :
        /\ Count(store[s], IsSystem) <= 1
        /\ Count(store[s], IsSystem) = 1 => IsSystem(store[s][1])

\* A second turn of a session has called the model, with the prompt in front
\* of the list it sent, and its response is stored.
C8_Witness ==
    \E r \in Runs, q \in Runs :
        /\ q # r /\ sess[q] = sess[r]
        /\ HumanMessage(q) \in Range(msgs[r])
        /\ Len(sent[r]) >= 3 /\ IsSystem(sent[r][1])
        /\ \E i \in DOMAIN store[sess[r]] :
              store[sess[r]][i].type = "ai" /\ store[sess[r]][i].run = r

C10_FullHistorySent ==
    \A r \in Runs :
        sent[r] # <<>> =>
            /\ \A q \in doneAtCall[r] : Own(q) \subseteq Range(sent[r])
            /\ \E k \in 1..Len(msgs[r]) : sent[r] = <<SYSTEM_PROMPT>> \o SubSeq(msgs[r], 1, k)

\* The names of the tool calls of run r recorded in the first i messages of
\* history h, in stored order.
RECURSIVE StoredCallNames(_, _, _)
StoredCallNames(h, r, i) ==
    IF i = 0 THEN <<>>
    ELSE StoredCallNames(h, r, i - 1) \o
         (IF h[i].run = r /\ IsToolCalls(h[i])
          THEN [k \in 1..Len(h[i].calls) |-> h[i].calls[k].name]
          ELSE <<>>)

\* The contents of the tool lines sent to the caller of run r, in order.
ToolLines(r) ==
    LET t == SelectSeq(events[r], LAMBDA e : e.type = "tool")
    IN [i \in 1..Len(t) |-> t[i].content]

\* C11: for every turn that has ended with the model's answer, the tool lines
\* sent to the caller name exactly the tool calls recorded in the turn's
\* stored tool-call messages, in the same order, one line per stored call.
C11_ToolEventsMatchStoredCalls ==
    \A r \in Runs :
        (pc[r] = "done" /\ outcome[r] = "ok")
            => LET names == StoredCallNames(msgs[r], r, Len(msgs[r]))
               IN ToolLines(r) = [i \in 1..Len(names) |-> tool_event(names[i]).content]

\* Run r has requested exactly one tool call and the call has returned a
\* result that is no error.
OneSuccessfulCall(r) ==
    LET tc == SelectSeq(msgs[r], LAMBDA m : m.run = r /\ IsToolCalls(m))
        tm == SelectSeq(msgs[r], LAMBDA m : m.run = r /\ m.type = "tool")
    IN /\ Len(tc) = 1 /\ Len(tc[1].calls) = 1
       /\ Len(tm) = 1 /\ ~tm[1].err /\ tm[1].call_id = tc[1].calls[1].id

\* The lines of run r are text lines, one tool line at position i, text lines.
ToolLineAt(r, i) ==
    /\ i \in 1..Len(events[r])
    /\ events[r][i].type = "tool"
    /\ \A j \in 1..Len(events[r]) : j # i => events[r][j].type = "agent"

\* C12: in a turn with one successful tool call, the tool line follows every
\* text line of the model step that requested the call (when the tool step
\* has ended it is the last line sent) and precedes every text line of the
\* following model step, and the turn has added four messages to the stored
\* history: user, assistant tool calls, tool result, assistant text.
C12_OneToolCallTurn ==
    \A r \in Runs :
        OneSuccessfulCall(r) =>
            /\ (pc[r] = "agent" /\ rounds[r] = 1) => ToolLineAt(r, Len(events[r]))
            /\ (pc[r] = "done" /\ outcome[r] = "ok") =>
                  /\ \E i \in 1..Len(events[r]) : ToolLineAt(r, i)
                  /\ Len(store[sess[r]]) = 4
                  /\ store[sess[r]][1] = HumanMessage(r)
                  /\ IsToolCalls(store[sess[r]][2]) /\ store[sess[r]][2].run = r
                  /\ store[sess[r]][3] =
                        ToolMessage(r, store[sess[r]][2].calls[1].id, FALSE)
                  /\ store[sess[r]][4] = AIText(r)

\* A turn with one successful tool call has ended, with text lines before and
\* after the tool line.
C12_Witness ==
    \E r \in Runs :
        /\ OneSuccessfulCall(r) /\ pc[r] = "done" /\ outcome[r] = "ok"
        /\ ToolLineAt(r, 2) /\ Len(events[r]) = 3

\* Run r is the first turn of its session and the model has answered it
\* without requesting a tool.
DirectFirstTurn(r) ==
    /\ pc[r] = "done" /\ outcome[r] = "ok"
    /\ msgs[r][1] = HumanMessage(r)
    /\ \A q \in Runs \ {r} : sess[q] # sess[r]
    /\ \A i \in 1..Len(msgs[r]) : ~IsToolCalls(msgs[r][i])

\* C13: a first turn of a new session that the model answers directly never
\* enters the tool step, sends only text lines, and leaves the session with
\* no turn running and two stored messages: the user message and the
\* assistant text.
C13_DirectAnswer ==
    \A r \in Runs :
        DirectFirstTurn(r) =>
            /\ rounds[r] = 0 /\ started[r] = 0 /\ inflight[r] = {} /\ step[r] = 1
            /\ \A i \in 1..Len(events[r]) : events[r][i].type = "agent"
            /\ \A q \in Runs : sess[q] = sess[r] => ~Running(q)
            /\ store[sess[r]] = <<HumanMessage(r), AIText(r)>>

\* A directly answered first turn has ended while another session is in use.
C13_Witness ==
    \E r \in Runs : DirectFirstTurn(r) /\ \E q \in Runs \ {r} : pc[q] # "new"

\* C14: every line of the chat stream is an object of two fields, a type
\* that is agent, tool or error and a content that is a string; an agent
\* line never has empty content.
C14_LineFormat ==
    \A r \in Runs : \A i \in 1..Len(events[r]) :
        LET e == events[r][i]
        IN /\ DOMAIN e = {"type", "content"}
           /\ e.type \in {"agent", "tool", "error"}
           /\ e.content \in STRING
           /\ e.type = "agent" => e.content # ""

\* A turn has sent lines of the three types, after a model step whose chunk
\* with the tool calls had no text.
C14_Witness ==
    \E r \in Runs :
        /\ \A t \in {"agent", "tool", "error"} :
              \E i \in 1..Len(events[r]) : events[r][i].type = t
        /\ \E i \in 1..Len(msgs[r]) : IsToolCalls(msgs[r][i])

\* A step changes the stored history of session s only as the checkpoint of
\* a turn on s.
StoreFrame ==
    \A s \in Sessions :
        store'[s] # store[s] =>
            \E r \in Runs : sess'[r] = s /\ msgs'[r] # msgs[r] /\ store'[s] = msgs'[r]

\* The next request is accepted on any session id, and a running turn can
\* take its next step, whatever turns are running on other session ids.
NeverBlocked ==
    /\ \A r \in Runs, s \in Sessions :
          (/\ app = "serving" /\ pc[r] = "new"
           /\ \A q \in Runs : q < r => pc[q] # "new"
           /\ r = 1 => s = "s1") => ENABLED Submit(r, s)
    /\ \A r \in Runs :
          /\ (pc[r] = "agent" /\ step[r] < recursion_limit)
                => ENABLED ModelText(r, StrContent("text"))
          /\ (pc[r] = "tools" /\ started[r] = 0 /\ step[r] < recursion_limit)
                => ENABLED ToolsBegin(r)

\* C15: a turn on one session id never changes the stored history of another
\* session id, and no turn is refused or made to wait because a turn on
\* another session id is running.
C15_SessionsIndependent == [][StoreFrame]_vars /\ []NeverBlocked

\* Turns on two session ids are running at once and one of them has stored
\* a model response.
C15_Witness ==
    \E r, q \in Runs :
        /\ sess[r] \in Sessions /\ sess[q] \in Sessions /\ sess[r] # sess[q]
        /\ Running(r) /\ Running(q)
        /\ Len(store[sess[r]]) = 2 /\ Len(store[sess[q]]) = 1

\* C16: however a turn has ended (answer, tool failure, model failure, the
\* client's disconnect), nothing of it is still running and its session is
\* not locked: the next request on the same session id is accepted.
C16_UnlockedAfterTurn ==
    \A q \in Runs :
        pc[q] = "done" =>
            /\ inflight[q] = {} /\ ~Running(q)
            /\ \A r \in Runs :
                  (pc[r] = "new" /\ \A p \in Runs : p < r => pc[p] # "new")
                      => ENABLED Submit(r, sess[q])

\* A turn has been accepted on a session id after a turn on it had ended
\* with the client's disconnect.
C16_Witness ==
    \E q, r \in Runs :
        /\ q \in endedBefore[r] /\ outcome[q] = "cancelled"
        /\ sess[r] = sess[q] /\ pc[r] = "done" /\ outcome[r] = "ok"

\* C17: if tool discovery fails at startup, initialization raises, the cached
\* graph stays unset and the application serves no request; no chat turn
\* ever runs on a graph built without its tools.
C17_FailFast ==
    /\ app = "failed" => (graph_cache = "None" /\ \A r \in Runs : pc[r] = "new")
    /\ app = "serving" => graph_cache = "graph"
    /\ \A r \in Runs : pc[r] # "new" => graph_cache = "graph"

\* Tool discovery has failed at startup.
C17_Witness == app = "failed" /\ graph_cache = "None"

\* C18: the download endpoint answers 400 to every filename that contains
\* ".." or "/", without looking at the file system; it answers 404 to a name
\* for which nothing exists; so a file it serves is directly inside the data
\* directory.
C18_DownloadConfined ==
    dlStatus # 0 =>
        /\ (HasDotDot(dlName) \/ HasSlash(dlName)) => (dlStatus = 400 /\ dlPath = <<>>)
        /\ (dlPath # <<>> /\ ~path_exists(fsFiles, dlPath)) => dlStatus = 404
        /\ dlStatus = 200 =>
              LET f == Resolve(fsFiles, dlPath)
              IN /\ f \in fsFiles
                 /\ Len(f) = Len(DataDir) + 1
                 /\ SubSeq(f, 1, Len(DataDir)) = DataDir
                 /\ f[Len(f)] = dlName

\* A file of the data directory has been served while files exist beside
\* the data directory and below it.
C18_Witness == dlStatus = 200 /\ fsFiles = PossibleFiles

\* The step is a save_proposal that reached update_status with a filename
\* that no row has.
SaveWithoutMatch ==
    /\ lastCall'.tool = "save_proposal" /\ toolResult'.text = "Saved proposal"
    /\ Matching(projects, lastCall'.filename) = {}

InProgress(rows) == {i \in DOMAIN rows : rows[i].status = "PROCESSING"}

\* C19: when update_status is called with COMPLETED and no row has the given
\* filename, the PROCESSING row with the greatest id gets status COMPLETED
\* and the proposal content, and no other row changes; when there is no
\* PROCESSING row, no row changes and the result is the not-found warning.
C19_FallbackCompletesLatest ==
    [][SaveWithoutMatch =>
         IF InProgress(projects) = {}
         THEN projects' = projects /\ toolResult'.db = NotFoundWarning
         ELSE \E m \in InProgress(projects) :
                 /\ \A j \in InProgress(projects) : j <= m
                 /\ projects' = [projects EXCEPT
                                    ![m] = Row(@.filename, "COMPLETED", lastCall'.text)]
      ]_vars

\* C19, for calls with a proposal text that is not empty.
C19_FallbackWithProposal ==
    [][(SaveWithoutMatch /\ lastCall'.text # "") =>
         IF InProgress(projects) = {}
         THEN projects' = projects /\ toolResult'.db = NotFoundWarning
         ELSE \E m \in InProgress(projects) :
                 /\ \A j \in InProgress(projects) : j <= m
                 /\ projects' = [projects EXCEPT
                                    ![m] = Row(@.filename, "COMPLETED", lastCall'.text)]
      ]_vars

\* C20: the fallback takes the newest PROCESSING row whoever registered it:
\* when a session saves a proposal under a filename that no row has, and the
\* newest PROCESSING row was registered by the other session's read_file,
\* that row is marked COMPLETED and holds the saving session's proposal.
C20_FallbackTakesOthersRow ==
    [][\A m \in InProgress(projects) :
          (/\ SaveWithoutMatch /\ lastCall'.text # ""
           /\ \A j \in InProgress(projects) : j <= m
           /\ registeredBy[m] # lastCall'.session)
          => /\ projects'[m].status = "COMPLETED"
             /\ projects'[m].proposal_content = ProposalOf(lastCall'.session)
             /\ registeredBy'[m] # lastCall'.session
      ]_vars

\* Both sessions have read a file of their own; then one has saved its
\* proposal under a derived filename: the other session's row is COMPLETED
\* with that proposal, and the saving session's row is still PROCESSING.
C20_Witness ==
    /\ lastCall.tool = "save_proposal" /\ Matching(projects, lastCall.filename) = {}
    /\ Len(projects) = 2
    /\ \E i, j \in DOMAIN projects :
          /\ registeredBy[i] # lastCall.session
          /\ projects[i] = Row(projects[i].filename, "COMPLETED",
                               ProposalOf(lastCall.session))
          /\ registeredBy[j] = lastCall.session
          /\ projects[j] = Row(projects[j].filename, "PROCESSING", NULL)

C22_SuccessMeansUpdated ==
    [][(lastCall'.tool = "save_proposal" /\ toolResult'.text = "Saved proposal") =>
         /\ toolResult'.db \in {UpdatedMessage, NotFoundWarning}
         /\ toolResult'.db = UpdatedMessage <=>
               (Matching(projects, lastCall'.filename) # {} \/ projects' # projects)
      ]_vars

\* C23: every list that call_model sends to the model begins with the system
\* prompt and holds it exactly once, at the first model call of a session
\* and at every later model call of every later turn.
C23_PromptSentOnceFirst ==
    \A r \in Runs :
        sent[r] # <<>> =>
            /\ sent[r][1] = SYSTEM_PROMPT
            /\ \A i \in 2..Len(sent[r]) : ~IsSystem(sent[r][i])
            /\ Len(sent[r]) >= 2

\* The second model call of a turn that was submitted after an earlier turn
\* of its session had ended.
C23_Witness ==
    \E r \in Runs :
        /\ endedBefore[r] # {} /\ rounds[r] = 1 /\ outcome[r] = "ok"
        /\ Len(sent[r]) >= 6

\* No two rows of the table have the same filename.
OneRowPerFilename ==
    \A i, j \in DOMAIN projects : projects[i].filename = projects[j].filename => i = j

\* A read_file of a filename that has a row resets that row to PROCESSING
\* and inserts no row.
ResetInsertsNone ==
    (lastCall'.tool = "read_file" /\ Matching(projects, lastCall'.filename) # {}) =>
        /\ Len(projects') = Len(projects)
        /\ \A i \in DOMAIN projects :
              projects'[i] = IF projects[i].filename = lastCall'.filename
                             THEN [projects[i] EXCEPT !.status = "PROCESSING"]
                             ELSE projects[i]

\* C24: after any sequence of read_file and save_proposal calls the projects
\* table holds at most one row per filename: add_project on a filename that
\* has a row resets that row to PROCESSING and inserts no new one.
C24_OneRowPerFilename == []OneRowPerFilename /\ [][ResetInsertsNone]_vars

\* Both files have been read, and a read_file has reset a row that a save
\* had completed: it is PROCESSING again and still holds the proposal.
C24_Witness ==
    /\ lastCall.tool = "read_file" /\ Len(projects) = 2
    /\ \E i \in DOMAIN projects :
          /\ projects[i].filename = lastCall.filename
          /\ projects[i].status = "PROCESSING"
          /\ projects[i].proposal_content # NULL

\* C25: in every reachable state of the projects table a row whose status is
\* COMPLETED has a stored proposal content.
C25_CompletedHasProposal ==
    \A i \in DOMAIN projects :
        projects[i].status = "COMPLETED" => Truthy(projects[i].proposal_content)

\* C26: the normalization of save_proposal and convert_to_pdf is idempotent:
\* the markdown and PDF names built from a filename f have the base name of
\* f, so convert_to_pdf called with f, with the markdown name or with the
\* PDF name opens the file that save_proposal(f, ...) wrote and returns the
\* URL of its PDF.
C26_NormalizationIdempotent ==
    [][(lastCall.tool = "save_proposal" /\ lastCall'.tool = "convert_to_pdf") =>
         /\ base_name(lastCall'.filename) = base_name(lastCall.filename)
         /\ md_filename(lastCall'.filename) = toolResult.file
         /\ toolResult'.file = pdf_filename(lastCall.filename)
      ]_vars

\* C26, for filenames whose base name holds none of the removed strings.
C26_IdempotentOnCleanBase ==
    [][(/\ lastCall.tool = "save_proposal" /\ lastCall'.tool = "convert_to_pdf"
        /\ \A old \in {PROPOSAL_FOR, DOT_MD, DOT_PDF} :
              str_remove(base_name(lastCall.filename), old) = base_name(lastCall.filename)) =>
         /\ base_name(lastCall'.filename) = base_name(lastCall.filename)
         /\ md_filename(lastCall'.filename) = toolResult.file
         /\ toolResult'.file = pdf_filename(lastCall.filename)
      ]_vars


====
